---- MODULE Spec2Model ----
(***************************************************************************)
(* A model of the wallet of siacore/wallet/wallet.go: the ledger of owned  *)
(* outputs and its cached balance (Update, Reset, Balance), the tentative  *)
(* spends (spentOutputs) and the transaction builders (RegisterTransaction,*)
(* FundTransaction, AddMinerFee, AddOutput), and address issuance          *)
(* (CoinAddress).                                                          *)
(*                                                                         *)
(* Reading of the source where it names things it never declares:          *)
(*   - `ca` (lines 76, 95) is the wallet's own coin address, the one       *)
(*     w.spendConditions.CoinAddress() yields (line 217);                  *)
(*   - `w.outputs` (lines 77, 98, 117, 183) is a table from output id to   *)
(*     a record whose field `output` points at a consensus.Output;         *)
(*   - an assignment through a table entry (`w.outputs[id].output = ..`,   *)
(*     `w.transactions[id].transaction = t`) stores into the entry of that *)
(*     key, making the entry when the key is new;                          *)
(*   - a read through an entry that was never stored (line 77) follows a   *)
(*     nil pointer: the call panics and the process stops.                 *)
(* Currency values stay far below 2^64, so unsigned wrap-around never      *)
(* happens within the bounds.                                              *)
(***************************************************************************)
EXTENDS Integers, Sequences, FiniteSets, TLC

\* ------------------------------------------------------------------ bounds
MaxBalance == 4
MaxSessions == 2
MaxInputs == 2
MaxTxOutputs == 1
MaxFees == 1
MaxAmount == 3
MaxBlocks == 1
MaxReorgBlocks == 2
MaxTxPerBlock == 2
MaxAddresses == 1
NumThreads == 2

\* ----------------------------------------------------- the chain's contents
\* The wallet's own address (`ca`, and w.spendConditions.CoinAddress()).
ca == 1

\* An address the wallet does not control.
otherAddress == 2

\* Addresses that signatures.GenerateKeyPair() can yield: fresh ones.
generatedAddress(n) == 2 + n

\* The transactions blocks are made of. Inputs name the output they consume
\* and the address of the spend conditions they reveal; outputs carry a value
\* and the address they pay.
Txs ==
  [ tid \in 1..3 |->
      CASE tid = 1 -> [ Inputs  |-> << >>,
                        Outputs |-> << [Value |-> 2, SpendHash |-> ca],
                                       [Value |-> 1, SpendHash |-> otherAddress] >> ]
        [] tid = 2 -> [ Inputs  |-> << [OutputID |-> 10, SpendConditions |-> ca] >>,
                        Outputs |-> << [Value |-> 2, SpendHash |-> otherAddress] >> ]
        [] tid = 3 -> [ Inputs  |-> << [OutputID |-> 90, SpendConditions |-> otherAddress] >>,
                        Outputs |-> << [Value |-> 1, SpendHash |-> ca],
                                       [Value |-> 2, SpendHash |-> otherAddress] >> ] ]

\* Transaction.OutputID(i): the identifier of the i-th output (from 0) of a
\* transaction, injective in the pair.
OutputID(tid, i) == tid * 10 + i

\* A block is its list of transactions, without repetition.
Blocks ==
  { b \in UNION { [1..n -> DOMAIN Txs] : n \in 1..MaxTxPerBlock } :
      \A i, j \in DOMAIN b : i # j => b[i] # b[j] }

\* The block lists one Update call can be given.
BlockLists == UNION { [1..n -> Blocks] : n \in 0..MaxBlocks }

\* What an output is really worth: the value its transaction gave it.
TrueValue(id) == Txs[id \div 10].Outputs[(id % 10) + 1].Value

\* ------------------------------------------------------------------- state
VARIABLES
  balance,             \* w.balance
  ownedOutputs,        \* w.ownedOutputs: a set of output ids
  outputs,             \* w.outputs: output id -> the Value its entry's pointer reads
  spentOutputs,        \* w.spentOutputs: a set of output ids
  spendableAddresses,  \* w.spendableAddresses: the addresses issued
  transactionCounter,  \* w.transactionCounter
  transactions,        \* w.transactions: id -> openTransaction
  sharedLoopVar,       \* whether the build gives a range loop one variable for all iterations
  call,                \* the name of the last call made
  err,                 \* what the last call returned
  prev,                \* the last Update call: its block lists, and the ledger before it
  scenario,            \* how far the calls so far follow create, spend, rewind the spend
  abandon,             \* the last successful funding, and whether Reset came right after it
  fund                 \* each thread's FundTransaction call in progress: its locals

walletVars ==
  << balance, ownedOutputs, outputs, spentOutputs, spendableAddresses,
     transactionCounter, transactions >>

vars ==
  << balance, ownedOutputs, outputs, spentOutputs, spendableAddresses,
     transactionCounter, transactions, sharedLoopVar, call, err,
     prev, scenario, abandon, fund >>

\* What observes the calls without being part of the wallet.
observers == << prev, scenario, abandon, fund >>

Threads == 1..NumThreads

\* ------------------------------------------------------------------ errors
ErrNil == "nil"
ErrZero == "cannot fund 0 coins"
ErrNoTransaction == "no transaction of given id found"
ErrNoTransactionFound == "no transaction found for given id"
ErrInsufficient == "insufficient funds"
ErrKeyGen == "key generation failed"
Panic == "panic: nil pointer dereference"

\* ----------------------------------------------------------------- helpers
RECURSIVE Flatten(_)
Flatten(ss) == IF ss = << >> THEN << >> ELSE Head(ss) \o Flatten(Tail(ss))

Reverse(s) == [ i \in 1..Len(s) |-> s[Len(s) + 1 - i] ]

RECURSIVE SumOver(_, _)
SumOver(S, f) ==
  IF S = {} THEN 0
  ELSE LET x == CHOOSE y \in S : TRUE IN f[x] + SumOver(S \ {x}, f)

\* strconv.Itoa on a non-negative counter: its decimal digits.
RECURSIVE Itoa(_)
Itoa(n) == IF n < 10 THEN << n >> ELSE Append(Itoa(n \div 10), n % 10)

\* ---------------------------------------------------------------- New
\* No funding to speak of.
NoFunding == [stage |-> 0, id |-> << >>, amount |-> 0, reserved |-> {}]

\* A thread that is in no FundTransaction call.
IdleCall ==
  [pc |-> "idle", id |-> << >>, amount |-> 0, visited |-> {},
   newInputs |-> << >>, total |-> 0, err |-> ErrNil, sole |-> 0]

\* New(): empty maps, zero balance and counter.
Init ==
  /\ balance = 0
  /\ ownedOutputs = {}
  /\ outputs = << >>
  /\ spentOutputs = {}
  /\ spendableAddresses = {}
  /\ transactionCounter = 0
  /\ transactions = << >>
  /\ sharedLoopVar \in BOOLEAN
  /\ call = "New"
  /\ err = ErrNil
  /\ prev = [rewound |-> << >>, applied |-> << >>,
             ownedOutputs |-> {}, balance |-> 0]
  /\ scenario = [stage |-> 0, id |-> 0, value |-> 0, spender |-> << >>]
  /\ abandon = NoFunding
  /\ fund = [ th \in Threads |-> IdleCall ]

\* A call that panicked brought the process down: nothing runs after it.
Alive == err # Panic

\* Wallet.Balance(): the cached balance.
Balance == balance

\* ---------------------------------------------------------------- Update
\* One step of Update's loops on the ledger.
Op(kind, id, value, recorded) ==
  [kind |-> kind, id |-> id, value |-> value, recorded |-> recorded]

\* Lines 67-81 for one transaction of a rewound block: every output it made
\* is deleted from ownedOutputs; every input spent from `ca` is put back.
TxRewindOps(tid) ==
  LET t == Txs[tid]
      mine == SelectSeq(t.Inputs, LAMBDA in : ca = in.SpendConditions)
  IN [ j \in 1..Len(t.Outputs) |-> Op("delete", OutputID(tid, j - 1), 0, 0) ]
     \o [ k \in 1..Len(mine) |-> Op("readd", mine[k].OutputID, 0, 0) ]

\* Lines 66-82: the rewound blocks in the order given, each block's
\* transactions from the last to the first.
RewoundOps(rewound) ==
  Flatten([ n \in 1..Len(rewound) |->
              Flatten([ i \in 1..Len(rewound[n]) |->
                          TxRewindOps(Reverse(rewound[n])[i]) ]) ])

\* Line 98 stores &output, the address of the range variable. A build that
\* keeps one variable for the whole loop leaves every entry of a transaction
\* reading the last output the loop visited; a build with a variable per
\* iteration leaves it reading its own output.
RecordedValue(tid, j, shared) ==
  LET outs == Txs[tid].Outputs
  IN IF shared THEN outs[Len(outs)].Value ELSE outs[j].Value

\* Lines 87-102 for one transaction of an applied block: every input's output
\* is deleted from ownedOutputs; every output paying `ca` is added.
TxApplyOps(tid, shared) ==
  LET t == Txs[tid]
      paid == SelectSeq([ j \in 1..Len(t.Outputs) |-> j ],
                        LAMBDA j : ca = t.Outputs[j].SpendHash)
  IN [ k \in 1..Len(t.Inputs) |-> Op("delete", t.Inputs[k].OutputID, 0, 0) ]
     \o [ k \in 1..Len(paid) |->
            Op("add", OutputID(tid, paid[k] - 1), t.Outputs[paid[k]].Value,
               RecordedValue(tid, paid[k], shared)) ]

\* Lines 86-103: blocks and transactions in the order given.
AppliedOps(applied, shared) ==
  Flatten([ n \in 1..Len(applied) |->
              Flatten([ i \in 1..Len(applied[n]) |->
                          TxApplyOps(applied[n][i], shared) ]) ])

\* The effect of one step on the ledger st = [balance, ownedOutputs, outputs,
\* panicked].
\*   delete: delete(w.ownedOutputs, id)                       (lines 71, 90)
\*   readd:  w.balance += w.outputs[id].output.Value;
\*           w.ownedOutputs[id] = struct{}{}                  (lines 77-78)
\*   add:    w.ownedOutputs[id] = struct{}{};
\*           w.outputs[id].output = &output;
\*           w.balance += output.Value                        (lines 97-99)
LedgerStep(st, op) ==
  IF st.panicked THEN st
  ELSE CASE op.kind = "delete" ->
              [st EXCEPT !.ownedOutputs = @ \ {op.id}]
         [] op.kind = "readd" ->
              IF op.id \notin DOMAIN st.outputs
              THEN [st EXCEPT !.panicked = TRUE]
              ELSE [st EXCEPT !.balance = @ + st.outputs[op.id],
                              !.ownedOutputs = @ \cup {op.id}]
         [] op.kind = "add" ->
              [st EXCEPT !.ownedOutputs = @ \cup {op.id},
                         !.outputs = (op.id :> op.recorded) @@ @,
                         !.balance = @ + op.value]

RECURSIVE RunOps(_, _)
RunOps(ops, st) ==
  IF ops = << >> THEN st ELSE RunOps(Tail(ops), LedgerStep(st, Head(ops)))

\* The ledger that Update(rewound, applied) makes of the ledger st.
LedgerAfter(st, rewound, applied, shared) ==
  RunOps(RewoundOps(rewound) \o AppliedOps(applied, shared), st)

\* The ledger after Update(rewound, applied) on the wallet as it is.
UpdateLedger(rewound, applied) ==
  LedgerAfter([balance |-> balance, ownedOutputs |-> ownedOutputs,
               outputs |-> outputs, panicked |-> FALSE],
              rewound, applied, sharedLoopVar)

\* An Update that drops from spentOutputs what the wallet no longer owns.
UpdateReleasing(rewound, applied) ==
  /\ Alive
  /\ LET st == UpdateLedger(rewound, applied)
     IN /\ st.balance <= MaxBalance
        /\ balance' = st.balance
        /\ ownedOutputs' = st.ownedOutputs
        /\ outputs' = st.outputs
        /\ spentOutputs' = spentOutputs \cap st.ownedOutputs
        /\ err' = IF st.panicked THEN Panic ELSE ErrNil
  /\ call' = "Update"
  /\ UNCHANGED << spendableAddresses, transactionCounter,
                  transactions, sharedLoopVar >>

\* Wallet.Update(rewound, applied).
Update(rewound, applied) ==
  /\ Alive
  /\ LET st == UpdateLedger(rewound, applied)
     IN /\ st.balance <= MaxBalance
        /\ balance' = st.balance
        /\ ownedOutputs' = st.ownedOutputs
        /\ outputs' = st.outputs
        /\ err' = IF st.panicked THEN Panic ELSE ErrNil
  /\ call' = "Update"
  /\ UNCHANGED << spentOutputs, spendableAddresses, transactionCounter,
                  transactions, sharedLoopVar >>

\* ----------------------------------------------------------------- Reset
\* A Reset that adds the value of every owned output, spent or not.
ResetBalanceAllOwned ==
  balance + SumOver(ownedOutputs, outputs)

\* The balance after Reset's loop: every spent output that is currently owned
\* has its value added.
ResetBalance ==
  balance + SumOver(spentOutputs \cap ownedOutputs, outputs)

\* A Reset whose delete sits in an else branch: owned outputs stay spent.
ResetSpentKeepsOwned == spentOutputs \cap ownedOutputs

\* The spent outputs after Reset's loop: line 119 deletes every one.
ResetSpent == {}

\* Wallet.Reset().
Reset ==
  /\ Alive
  /\ ResetBalance <= MaxBalance
  /\ balance' = ResetBalance
  /\ spentOutputs' = ResetSpent
  /\ call' = "Reset"
  /\ err' = ErrNil
  /\ UNCHANGED << ownedOutputs, outputs, spendableAddresses,
                  transactionCounter, transactions, sharedLoopVar >>

\* ----------------------------------------------------------- CoinAddress
\* Wallet.CoinAddress(): a fresh key pair, whose address enters
\* spendableAddresses; a failed key generation returns the error and stores
\* nothing.
CoinAddress(keygenFails) ==
  /\ Alive
  /\ call' = "CoinAddress"
  /\ IF keygenFails
     THEN /\ err' = ErrKeyGen
          /\ UNCHANGED spendableAddresses
     ELSE /\ Cardinality(spendableAddresses) < MaxAddresses
          /\ spendableAddresses' =
               spendableAddresses \cup
                 {generatedAddress(Cardinality(spendableAddresses) + 1)}
          /\ err' = ErrNil
  /\ UNCHANGED << balance, ownedOutputs, outputs, spentOutputs,
                  transactionCounter, transactions, sharedLoopVar >>

\* --------------------------------------------------- RegisterTransaction
\* The transaction a caller hands to RegisterTransaction: an empty shell.
EmptyTransaction == [Inputs |-> << >>, Outputs |-> << >>, MinerFees |-> << >>]

\* The session ids callers try: those the counter can give, and one beyond.
SessionIds == { Itoa(n) : n \in 0..MaxSessions }

\* Lines 156-158: the entry of key id holds the transaction, with no inputs
\* recorded yet.
Registered(id, t) ==
  (id :> [transaction |-> t, inputs |-> << >>]) @@ transactions

\* Wallet.RegisterTransaction(t).
RegisterTransaction(t) ==
  /\ Alive
  /\ transactionCounter < MaxSessions
  /\ transactions' = Registered(Itoa(transactionCounter), t)
  /\ transactionCounter' = transactionCounter + 1
  /\ call' = "RegisterTransaction"
  /\ err' = ErrNil
  /\ UNCHANGED << balance, ownedOutputs, outputs, spentOutputs,
                  spendableAddresses, sharedLoopVar >>

\* Wallet.RegisterTransaction(t) with line 158 as Go runs it on the table
\* line 44 declares, a map of pointers: the entry of a key that was never
\* stored is nil, and the store through it panics, after line 157 moved the
\* counter on.
RegisterTransactionNilEntry(t) ==
  /\ Alive
  /\ transactionCounter < MaxSessions
  /\ transactionCounter' = transactionCounter + 1
  /\ IF Itoa(transactionCounter) \in DOMAIN transactions
     THEN /\ transactions' =
               [transactions EXCEPT ![Itoa(transactionCounter)].transaction = t]
          /\ err' = ErrNil
     ELSE /\ UNCHANGED transactions
          /\ err' = Panic
  /\ call' = "RegisterTransaction"
  /\ UNCHANGED << balance, ownedOutputs, outputs, spentOutputs,
                  spendableAddresses, sharedLoopVar >>

\* ------------------------------------------------------- FundTransaction
\* The orders in which `range w.ownedOutputs` can visit the map's keys.
IterationOrders ==
  { o \in [1..Cardinality(ownedOutputs) -> ownedOutputs] :
      \A i, j \in DOMAIN o : i # j => o[i] # o[j] }

\* Lines 186-189: the input made for an output.
NewInput(id) == [OutputID |-> id, SpendConditions |-> ca]

\* Lines 173-197: the loop over ownedOutputs in the order given, skipping
\* the spent ones, until the total reaches amount.
RECURSIVE Scan(_, _, _, _)
Scan(order, newInputs, total, amount) ==
  IF order = << >> THEN [newInputs |-> newInputs, total |-> total]
  ELSE LET id == Head(order)
       IN IF id \in spentOutputs
          THEN Scan(Tail(order), newInputs, total, amount)
          ELSE IF total + outputs[id] >= amount
               THEN [newInputs |-> Append(newInputs, NewInput(id)),
                     total |-> total + outputs[id]]
               ELSE Scan(Tail(order), Append(newInputs, NewInput(id)),
                         total + outputs[id], amount)

\* Lines 211-220: the outputs of the transaction after the refund step.
WithRefund(outs, total, amount) ==
  IF total - amount > 0
  THEN Append(outs, [Value |-> total - amount, SpendHash |-> ca])
  ELSE outs

\* Lines 205-207: the inputs join the transaction, and the session's input
\* record gains len(t.Inputs), taken after the append, once per new input.
WithInputs(ot, newInputs) ==
  LET ins == ot.transaction.Inputs \o newInputs
  IN [ot EXCEPT !.transaction.Inputs = ins,
                !.inputs = @ \o [ k \in 1..Len(newInputs) |-> Len(ins) ]]

\* Lines 204-220: the session after a funding that found enough.
Funded(ot, sel, amount) ==
  [WithInputs(ot, sel.newInputs) EXCEPT
     !.transaction.Outputs = WithRefund(@, sel.total, amount)]

\* A funding that forgets to mark what it selected.
SpentAfterUnmarked(newInputs) == spentOutputs

\* Line 208: the outputs of the new inputs become spent.
SpentAfter(newInputs) ==
  spentOutputs \cup { newInputs[k].OutputID : k \in DOMAIN newInputs }

\* A FundTransaction that looks the session up before it looks at the amount.
FundErrorSessionFirst(id, amount, sel) ==
  IF id \notin DOMAIN transactions THEN ErrNoTransaction
  ELSE IF amount = 0 THEN ErrZero
  ELSE IF sel.total < amount THEN ErrInsufficient
  ELSE ErrNil

\* What FundTransaction returns (lines 164-170, 200-202, 222).
FundError(id, amount, sel) ==
  IF amount = 0 THEN ErrZero
  ELSE IF id \notin DOMAIN transactions THEN ErrNoTransaction
  ELSE IF sel.total < amount THEN ErrInsufficient
  ELSE ErrNil

\* Wallet.FundTransaction(id, amount), run from start to end with no other
\* call in between; order is the map iteration order of this run.
FundTransaction(id, amount, order) ==
  /\ Alive
  /\ call' = "FundTransaction"
  /\ LET sel == Scan(order, << >>, 0, amount)
     IN /\ err' = FundError(id, amount, sel)
        /\ IF FundError(id, amount, sel) = ErrNil
           THEN /\ Len(Funded(transactions[id], sel, amount).transaction.Inputs)
                     <= MaxInputs
                /\ Len(Funded(transactions[id], sel, amount).transaction.Outputs)
                     <= MaxTxOutputs
                /\ transactions' =
                     [transactions EXCEPT ![id] = Funded(@, sel, amount)]
                /\ spentOutputs' = SpentAfter(sel.newInputs)
           ELSE UNCHANGED << transactions, spentOutputs >>
  /\ UNCHANGED << balance, ownedOutputs, outputs, spendableAddresses,
                  transactionCounter, sharedLoopVar >>

\* ----------------------------------------------- AddMinerFee, AddOutput
\* An AddMinerFee that returns nil for a session it does not know.
AddMinerFeeUnknownNil(id, fee) ==
  /\ Alive
  /\ call' = "AddMinerFee"
  /\ IF id \notin DOMAIN transactions
     THEN /\ err' = ErrNil
          /\ UNCHANGED transactions
     ELSE /\ Len(transactions[id].transaction.MinerFees) < MaxFees
          /\ transactions' =
               [transactions EXCEPT ![id].transaction.MinerFees = Append(@, fee)]
          /\ err' = ErrNil
  /\ UNCHANGED << balance, ownedOutputs, outputs, spentOutputs,
                  spendableAddresses, transactionCounter, sharedLoopVar >>

\* Wallet.AddMinerFee(id, fee).
AddMinerFee(id, fee) ==
  /\ Alive
  /\ call' = "AddMinerFee"
  /\ IF id \notin DOMAIN transactions
     THEN /\ err' = ErrNoTransactionFound
          /\ UNCHANGED transactions
     ELSE /\ Len(transactions[id].transaction.MinerFees) < MaxFees
          /\ transactions' =
               [transactions EXCEPT ![id].transaction.MinerFees = Append(@, fee)]
          /\ err' = ErrNil
  /\ UNCHANGED << balance, ownedOutputs, outputs, spentOutputs,
                  spendableAddresses, transactionCounter, sharedLoopVar >>

\* Wallet.AddOutput(id, amount, dest).
AddOutput(id, amount, dest) ==
  /\ Alive
  /\ call' = "AddOutput"
  /\ IF id \notin DOMAIN transactions
     THEN /\ err' = ErrNoTransactionFound
          /\ UNCHANGED transactions
     ELSE /\ Len(transactions[id].transaction.Outputs) < MaxTxOutputs
          /\ transactions' =
               [transactions EXCEPT ![id].transaction.Outputs =
                  Append(@, [Value |-> amount, SpendHash |-> dest])]
          /\ err' = ErrNil
  /\ UNCHANGED << balance, ownedOutputs, outputs, spentOutputs,
                  spendableAddresses, transactionCounter, sharedLoopVar >>

\* ------------------------------------- FundTransaction, statement by statement
\* FundTransaction takes no lock (lines 163-223 hold no w.Lock()), so the
\* statements of two calls interleave. A thread's call goes through:
\*   idle  -> lines 164-170 -> scan, or done with an error
\*   scan  -> one iteration of the loop of lines 175-197 -> scan or check
\*   check -> lines 200-222 -> done

\* The one owned, unspent output there is, or 0 when there is none or several.
SoleCandidate ==
  IF Cardinality(ownedOutputs \ spentOutputs) = 1
  THEN CHOOSE id \in ownedOutputs \ spentOutputs : TRUE
  ELSE 0

\* Lines 164-171: the checks on entry.
FundBegin(th, id, amount) ==
  /\ Alive
  /\ fund[th].pc = "idle"
  /\ fund' =
       [fund EXCEPT ![th] =
          [IdleCall EXCEPT
             !.pc = IF amount = 0 \/ id \notin DOMAIN transactions
                    THEN "done" ELSE "scan",
             !.id = id,
             !.amount = amount,
             !.err = IF amount = 0 THEN ErrZero
                     ELSE IF id \notin DOMAIN transactions THEN ErrNoTransaction
                     ELSE ErrNil,
             !.sole = IF /\ SoleCandidate # 0
                         /\ outputs[SoleCandidate] >= amount
                         /\ TrueValue(SoleCandidate) >= amount
                      THEN SoleCandidate ELSE 0]]
  /\ UNCHANGED << balance, ownedOutputs, outputs, spentOutputs,
                  spendableAddresses, transactionCounter, transactions,
                  sharedLoopVar, call, err, prev, scenario,
                  abandon >>

\* Lines 175-197: one iteration, on a key the range has not visited yet; with
\* no key left the loop ends.
FundScan(th) ==
  /\ Alive
  /\ fund[th].pc = "scan"
  /\ IF ownedOutputs \ fund[th].visited = {}
     THEN fund' = [fund EXCEPT ![th].pc = "check"]
     ELSE \E id \in ownedOutputs \ fund[th].visited :
            fund' =
              [fund EXCEPT ![th] =
                 IF id \in spentOutputs
                 THEN [@ EXCEPT !.visited = @ \cup {id}]
                 ELSE [@ EXCEPT
                         !.visited = @ \cup {id},
                         !.newInputs = Append(@, NewInput(id)),
                         !.total = @ + outputs[id],
                         !.pc = IF fund[th].total + outputs[id] >= fund[th].amount
                                THEN "check" ELSE "scan"]]
  /\ UNCHANGED << balance, ownedOutputs, outputs, spentOutputs,
                  spendableAddresses, transactionCounter, transactions,
                  sharedLoopVar, call, err, prev, scenario,
                  abandon >>

\* Lines 200-222: the check of the total, then the inputs, the spent marks
\* and the refund.
FundFinish(th) ==
  /\ Alive
  /\ fund[th].pc = "check"
  /\ LET f == fund[th]
         sel == [newInputs |-> f.newInputs, total |-> f.total]
     IN IF f.total < f.amount
        THEN /\ fund' = [fund EXCEPT ![th].pc = "done", ![th].err = ErrInsufficient]
             /\ UNCHANGED << transactions, spentOutputs >>
        ELSE /\ Len(Funded(transactions[f.id], sel, f.amount).transaction.Inputs)
                  <= MaxInputs
             /\ Len(Funded(transactions[f.id], sel, f.amount).transaction.Outputs)
                  <= MaxTxOutputs
             /\ transactions' =
                  [transactions EXCEPT ![f.id] = Funded(@, sel, f.amount)]
             /\ spentOutputs' = SpentAfter(f.newInputs)
             /\ fund' = [fund EXCEPT ![th].pc = "done", ![th].err = ErrNil]
  /\ UNCHANGED << balance, ownedOutputs, outputs, spendableAddresses,
                  transactionCounter, sharedLoopVar, call, err, prev, scenario,
                  abandon >>

\* ------------------------------------------------- the calls, as callers make them
\* The block lists of one call.
UpdateArgs ==
  { args \in BlockLists \X BlockLists : Len(args[1]) + Len(args[2]) <= MaxBlocks }

UpdateCall ==
  \E args \in UpdateArgs :
    /\ Update(args[1], args[2])
    /\ abandon' = NoFunding
    /\ UNCHANGED << prev, scenario, fund >>

\* Reset right after a successful funding is that funding's release.
ResetCall ==
  /\ Reset
  /\ abandon' = IF abandon.stage = 1 THEN [abandon EXCEPT !.stage = 2]
                ELSE NoFunding
  /\ UNCHANGED << prev, scenario, fund >>

CoinAddressCall ==
  \E keygenFails \in BOOLEAN :
    /\ CoinAddress(keygenFails)
    /\ abandon' = NoFunding
    /\ UNCHANGED << prev, scenario, fund >>

RegisterTransactionCall ==
  /\ RegisterTransaction(EmptyTransaction)
  /\ abandon' = NoFunding
  /\ UNCHANGED << prev, scenario, fund >>

RegisterTransactionNilEntryCall ==
  /\ RegisterTransactionNilEntry(EmptyTransaction)
  /\ abandon' = NoFunding
  /\ UNCHANGED << prev, scenario, fund >>

FundTransactionCall ==
  \E id \in SessionIds, amount \in 0..MaxAmount, order \in IterationOrders :
    /\ FundTransaction(id, amount, order)
    /\ abandon' = IF err' = ErrNil
                  THEN [stage |-> 1, id |-> id, amount |-> amount,
                        reserved |-> spentOutputs' \ spentOutputs]
                  ELSE NoFunding
    /\ UNCHANGED << prev, scenario, fund >>

AddMinerFeeCall ==
  \E id \in SessionIds :
    /\ AddMinerFee(id, 1)
    /\ abandon' = NoFunding
    /\ UNCHANGED << prev, scenario, fund >>

AddOutputCall ==
  \E id \in SessionIds :
    /\ AddOutput(id, 1, otherAddress)
    /\ abandon' = NoFunding
    /\ UNCHANGED << prev, scenario, fund >>

\* ---------------------------------------------------------- specifications
\* The ledger and the funding of transactions, by callers that call one at a
\* time: every call runs from start to end.
Next ==
  \/ UpdateCall
  \/ ResetCall
  \/ RegisterTransactionCall
  \/ FundTransactionCall

Spec == Init /\ [][Next]_vars

\* The same with the calls that add fees and outputs to a transaction.
NextAll ==
  \/ UpdateCall
  \/ ResetCall
  \/ RegisterTransactionCall
  \/ FundTransactionCall
  \/ AddMinerFeeCall
  \/ AddOutputCall

SpecAll == Init /\ [][NextAll]_vars

\* The ledger and the funding of transactions, with the issuing of
\* addresses.
NextIssue ==
  \/ UpdateCall
  \/ ResetCall
  \/ RegisterTransactionCall
  \/ FundTransactionCall
  \/ CoinAddressCall

SpecIssue == Init /\ [][NextIssue]_vars

\* The calls one at a time, on a session table whose new entries are nil
\* pointers.
NextNilEntry ==
  \/ UpdateCall
  \/ ResetCall
  \/ RegisterTransactionNilEntryCall
  \/ FundTransactionCall
  \/ AddMinerFeeCall
  \/ AddOutputCall

SpecNilEntry == Init /\ [][NextNilEntry]_vars

\* The outputs paying `ca` that the transactions of block b create.
OwnedCreated(b) ==
  UNION { { [id |-> OutputID(b[i], j - 1), value |-> Txs[b[i]].Outputs[j].Value] :
              j \in { k \in DOMAIN Txs[b[i]].Outputs :
                        Txs[b[i]].Outputs[k].SpendHash = ca } } :
          i \in DOMAIN b }

\* The outputs the transactions of block b consume.
Consumed(b) ==
  UNION { { Txs[b[i]].Inputs[k].OutputID : k \in DOMAIN Txs[b[i]].Inputs } :
          i \in DOMAIN b }

\* How far the Update calls made since New() follow this course:
\*   stage 1: the first call applied one block, which creates one owned output;
\*   stage 2: the next call applied one block, which consumes that output and
\*            creates no owned output;
\*   stage 3: the next call rewound that second block.
\* Any other call leaves the course (stage 0).
ScenarioAfter(rewound, applied) ==
  IF /\ call = "New" /\ rewound = << >> /\ Len(applied) = 1
     /\ Cardinality(OwnedCreated(applied[1])) = 1
     /\ \A o \in OwnedCreated(applied[1]) : o.id \notin Consumed(applied[1])
  THEN LET o == CHOOSE x \in OwnedCreated(applied[1]) : TRUE
       IN [stage |-> 1, id |-> o.id, value |-> o.value, spender |-> << >>]
  ELSE IF /\ scenario.stage = 1 /\ rewound = << >> /\ Len(applied) = 1
          /\ scenario.id \in Consumed(applied[1])
          /\ OwnedCreated(applied[1]) = {}
  THEN [scenario EXCEPT !.stage = 2, !.spender = applied[1]]
  ELSE IF /\ scenario.stage = 2 /\ rewound = << scenario.spender >>
          /\ applied = << >>
  THEN [scenario EXCEPT !.stage = 3]
  ELSE [stage |-> 0, id |-> 0, value |-> 0, spender |-> << >>]

\* The block lists of one call that reports a reorganisation: up to
\* MaxReorgBlocks blocks, rewound and applied together.
ReorgArgs ==
  UNION { [1..n -> Blocks] \X [1..m -> Blocks] :
            n \in 0..MaxReorgBlocks, m \in 0..MaxReorgBlocks } \
    { args \in UNION { [1..n -> Blocks] \X [1..m -> Blocks] :
                         n \in 1..MaxReorgBlocks, m \in 1..MaxReorgBlocks } :
        Len(args[1]) + Len(args[2]) > MaxReorgBlocks }

\* Update calls alone, each observed: prev keeps the call's block lists and
\* the ledger it started from, scenario the course the calls follow.
ReorgCall ==
  \E args \in ReorgArgs :
    /\ Update(args[1], args[2])
    /\ prev' = [rewound |-> args[1], applied |-> args[2],
                ownedOutputs |-> ownedOutputs, balance |-> balance]
    /\ scenario' = ScenarioAfter(args[1], args[2])
    /\ UNCHANGED << abandon, fund >>

NextReorg == ReorgCall

SpecReorg == Init /\ [][NextReorg]_vars

\* FundTransaction calls of several threads, their statements interleaved.
\* The wallet they start on is one the calls above lead to: New(), one Update
\* that applies blocks, and MaxSessions calls of RegisterTransaction.
InitConc ==
  /\ sharedLoopVar \in BOOLEAN
  /\ \E applied \in BlockLists :
       /\ Len(applied) <= MaxBlocks
       /\ LET st == LedgerAfter([balance |-> 0, ownedOutputs |-> {},
                                 outputs |-> << >>, panicked |-> FALSE],
                                << >>, applied, sharedLoopVar)
          IN /\ st.balance <= MaxBalance
             /\ balance = st.balance
             /\ ownedOutputs = st.ownedOutputs
             /\ outputs = st.outputs
  /\ spentOutputs = {}
  /\ spendableAddresses = {}
  /\ transactionCounter = MaxSessions
  /\ transactions =
       [ id \in { Itoa(n) : n \in 0..(MaxSessions - 1) } |->
           [transaction |-> EmptyTransaction, inputs |-> << >>] ]
  /\ call = "RegisterTransaction"
  /\ err = ErrNil
  /\ prev = [rewound |-> << >>, applied |-> << >>,
             ownedOutputs |-> {}, balance |-> 0]
  /\ scenario = [stage |-> 0, id |-> 0, value |-> 0, spender |-> << >>]
  /\ abandon = NoFunding
  /\ fund = [ th \in Threads |-> IdleCall ]

FundBeginStep ==
  \E th \in Threads, id \in SessionIds, amount \in 0..MaxAmount :
    FundBegin(th, id, amount)

FundScanStep == \E th \in Threads : FundScan(th)

FundFinishStep == \E th \in Threads : FundFinish(th)

NextConc ==
  \/ FundBeginStep
  \/ FundScanStep
  \/ FundFinishStep

SpecConc == InitConc /\ [][NextConc]_vars

\* ------------------------------------------------------------------ claims
\* The real values of the outputs of a set, summed.
TrueSum(ids) == SumOver(ids, [ id \in ids |-> TrueValue(id) ])

\* The output ids of a list of inputs.
InputIds(ins) == { ins[k].OutputID : k \in DOMAIN ins }

\* C1: in every reachable state the balance that Balance returns is the sum
\* of the values of the outputs in ownedOutputs.
C1_BalanceIsSumOfOwned == Balance = TrueSum(ownedOutputs)

\* C1 on the wallet's own record of each value rather than the chain's.
C1_BalanceIsSumOfRecorded == Balance = SumOver(ownedOutputs, outputs)

\* C2: Update(rewound = [], applied = [B]) followed by Update(rewound = [B],
\* applied = []) leaves ownedOutputs and the balance as they were before B
\* was applied. prev holds the first call and the ledger before it; the step
\* is the second call.
C2_RoundTripRestores ==
  [][ ( /\ prev.rewound = << >>
        /\ Len(prev.applied) = 1
        /\ prev'.rewound = prev.applied
        /\ prev'.applied = << >>
        /\ Update(prev.applied, << >>) )
      => ( /\ ownedOutputs' = prev.ownedOutputs
           /\ balance' = prev.balance ) ]_vars

\* C3: of two FundTransaction calls for different sessions that both start
\* on a wallet whose only owned, unspent output is one of sufficient value,
\* at most one succeeds with that output among its inputs; the output is
\* never an input of both sessions' transactions.
C3_NoDoubleReservation ==
  \A a, b \in Threads :
    ( /\ a # b
      /\ fund[a].pc = "done" /\ fund[b].pc = "done"
      /\ fund[a].id # fund[b].id
      /\ fund[a].sole # 0 /\ fund[a].sole = fund[b].sole )
    => ~ ( /\ fund[a].err = ErrNil /\ fund[b].err = ErrNil
           /\ fund[a].sole \in InputIds(transactions[fund[a].id].transaction.Inputs)
           /\ fund[a].sole \in InputIds(transactions[fund[b].id].transaction.Inputs) )

\* The inputs a call appended to the transaction of session id.
Appended(id) ==
  SubSeq(transactions'[id].transaction.Inputs,
         Len(transactions[id].transaction.Inputs) + 1,
         Len(transactions'[id].transaction.Inputs))

\* C4: whenever FundTransaction(id, amount) succeeds, the values of the
\* inputs it appended sum to at least amount; if the sum exceeds amount,
\* exactly one refund output of value sum - amount is appended, and if the
\* sum equals amount, none.
C4_FundingSufficiency ==
  [][ \A id \in DOMAIN transactions, amount \in 1..MaxAmount,
         order \in IterationOrders :
        (FundTransaction(id, amount, order) /\ err' = ErrNil)
        => LET sum == TrueSum(InputIds(Appended(id)))
               outs == transactions[id].transaction.Outputs
               outs2 == transactions'[id].transaction.Outputs
           IN /\ sum >= amount
              /\ sum > amount =>
                   /\ Len(outs2) = Len(outs) + 1
                   /\ SubSeq(outs2, 1, Len(outs)) = outs
                   /\ outs2[Len(outs2)].Value = sum - amount
              /\ sum = amount => outs2 = outs ]_vars

\* C5: with amount > 0, a session that exists and owned, unspent outputs
\* worth less than amount in total, FundTransaction returns the
\* insufficient-funds error and changes nothing in the wallet.
C5_InsufficientChangesNothing ==
  [][ \A id \in DOMAIN transactions, amount \in 1..MaxAmount,
         order \in IterationOrders :
        ( /\ FundTransaction(id, amount, order)
          /\ TrueSum(ownedOutputs \ spentOutputs) < amount )
        => (err' = ErrInsufficient /\ UNCHANGED walletVars) ]_vars

\* C6: FundTransaction with amount 0 returns the zero-amount error for every
\* session id, registered or not, in every wallet state, and changes nothing
\* in the wallet.
C6_ZeroAmountFails ==
  [][ \A id \in SessionIds, order \in IterationOrders :
        FundTransaction(id, 0, order)
        => (err' = ErrZero /\ UNCHANGED walletVars) ]_vars

\* A funding of 0 was refused on a wallet that owns outputs and has sessions.
C6_Witness ==
  /\ call = "FundTransaction" /\ err = ErrZero
  /\ ownedOutputs \ spentOutputs # {}
  /\ transactions # << >>

C8_ReleasedSelectable ==
  [][ /\ abandon'.stage = 2 =>
           (abandon'.reserved \cap ownedOutputs') \cap spentOutputs' = {}
      /\ \A id \in DOMAIN transactions, order \in IterationOrders :
           ( /\ abandon.stage = 2
             /\ id # abandon.id
             /\ FundTransaction(id, abandon.amount, order) )
           => err' = ErrNil ]_vars

\* After a release, a second session was funded with an output the first
\* session's funding had reserved.
C8_Witness ==
  /\ call = "FundTransaction" /\ err = ErrNil
  /\ abandon.stage = 1
  /\ \E other \in DOMAIN transactions :
       /\ other # abandon.id
       /\ abandon.reserved \cap InputIds(transactions[other].transaction.Inputs) # {}

\* C9: Reset made twice in a row leaves the wallet as Reset made once does,
\* and Reset with nothing spent changes nothing.
C9_ReleaseIdempotent ==
  [][ ((call = "Reset" \/ spentOutputs = {}) /\ Reset)
      => UNCHANGED walletVars ]_vars

\* Reset has just released the outputs a funding had reserved.
C9_Witness ==
  /\ call = "Reset"
  /\ abandon.stage = 2
  /\ abandon.reserved \cap ownedOutputs # {}
  /\ spentOutputs = {}

\* C10: from an empty wallet, applying a block that creates an owned output
\* of value v makes the balance v and the output owned; then applying a
\* block that consumes it removes it and brings the balance back to 0; then
\* rewinding that block makes the output owned and the balance v again.
C10_CreateSpendRewind ==
  /\ scenario.stage = 1 =>
       (balance = scenario.value /\ scenario.id \in ownedOutputs)
  /\ scenario.stage = 2 =>
       (balance = 0 /\ scenario.id \notin ownedOutputs)
  /\ scenario.stage = 3 =>
       (balance = scenario.value /\ scenario.id \in ownedOutputs)

\* C11: every RegisterTransaction call returns an id that no earlier call
\* returned, and when it returns the session table has an entry for that
\* id, so FundTransaction with it does not fail for an unknown session.
C11_RegisteredIdKnown ==
  /\ \A m, n \in 0..transactionCounter : m # n => Itoa(m) # Itoa(n)
  /\ call = "RegisterTransaction" =>
       /\ err = ErrNil
       /\ Itoa(transactionCounter - 1) \in DOMAIN transactions
       /\ \A amount \in 1..MaxAmount, order \in IterationOrders :
            FundError(Itoa(transactionCounter - 1), amount,
                      Scan(order, << >>, 0, amount)) # ErrNoTransaction

\* The identifiers of a set, from the smallest to the largest.
RECURSIVE Ascending(_)
Ascending(S) ==
  IF S = {} THEN << >>
  ELSE LET least == CHOOSE x \in S : \A y \in S : x <= y
       IN << least >> \o Ascending(S \ {least})

\* The shortest prefix of a list of output ids whose outputs are worth at
\* least amount together; the whole list when they never are.
ShortestPrefix(ids, amount) ==
  LET enough == { n \in 0..Len(ids) :
                    TrueSum({ ids[i] : i \in 1..n }) >= amount }
  IN IF enough = {} THEN ids
     ELSE SubSeq(ids, 1, CHOOSE n \in enough : \A k \in enough : n <= k)

\* C12: a successful FundTransaction selects the shortest prefix, in
\* ascending order of identifier, of the owned outputs that are not spent
\* whose values reach amount; another run of the same call on the same
\* wallet selects the same inputs.
C12_SelectionDeterministic ==
  [][ \A id \in DOMAIN transactions, amount \in 1..MaxAmount,
         order \in IterationOrders, other \in IterationOrders :
        (FundTransaction(id, amount, order) /\ err' = ErrNil)
        => /\ [ k \in DOMAIN Appended(id) |-> Appended(id)[k].OutputID ]
                = ShortestPrefix(Ascending(ownedOutputs \ spentOutputs), amount)
           /\ InputIds(Scan(other, << >>, 0, amount).newInputs)
                = InputIds(Appended(id)) ]_vars

\* A thread is inside FundTransaction's body: past the lookup of line 167
\* and not yet at the return of line 201 or 222.
InBody(th) == fund[th].pc \in {"scan", "check"}

\* C13: every mutating operation holds the wallet's lock from start to end,
\* so no two callers are ever inside the bodies of mutating operations at
\* the same time.
C13_ExclusiveBodies ==
  \A a, b \in Threads : a # b => ~ (InBody(a) /\ InBody(b))

\* What a call returns for a session id that is not in the table.
UnknownSession == {ErrNoTransaction, ErrNoTransactionFound}

\* All of the wallet but the session table.
exceptTransactions ==
  << balance, ownedOutputs, outputs, spentOutputs, spendableAddresses,
     transactionCounter >>

\* The session table changed in the transaction of session id alone, and
\* there in nothing but its fees and outputs.
OnlyFeesAndOutputsOf(id) ==
  /\ DOMAIN transactions' = DOMAIN transactions
  /\ \A other \in DOMAIN transactions \ {id} :
       transactions'[other] = transactions[other]
  /\ transactions'[id].inputs = transactions[id].inputs
  /\ transactions'[id].transaction.Inputs = transactions[id].transaction.Inputs

\* C14: with a session id that is not in the table, FundTransaction (amount
\* above 0), AddMinerFee and AddOutput return the unknown-session error and
\* change nothing in the wallet; with an id that is in it, AddMinerFee
\* appends one fee and AddOutput one output to that session's transaction
\* and nothing else changes.
C14_SessionLookup ==
  [][ call' \in {"FundTransaction", "AddMinerFee", "AddOutput"} =>
      \A id \in SessionIds :
        /\ \A amount \in 1..MaxAmount, order \in IterationOrders :
             (id \notin DOMAIN transactions /\ FundTransaction(id, amount, order))
             => (err' \in UnknownSession /\ UNCHANGED walletVars)
        /\ AddMinerFee(id, 1) =>
             IF id \notin DOMAIN transactions
             THEN err' \in UnknownSession /\ UNCHANGED walletVars
             ELSE /\ err' = ErrNil
                  /\ transactions'[id].transaction.MinerFees =
                       Append(transactions[id].transaction.MinerFees, 1)
                  /\ transactions'[id].transaction.Outputs =
                       transactions[id].transaction.Outputs
                  /\ OnlyFeesAndOutputsOf(id)
                  /\ UNCHANGED exceptTransactions
        /\ AddOutput(id, 1, otherAddress) =>
             IF id \notin DOMAIN transactions
             THEN err' \in UnknownSession /\ UNCHANGED walletVars
             ELSE /\ err' = ErrNil
                  /\ transactions'[id].transaction.Outputs =
                       Append(transactions[id].transaction.Outputs,
                              [Value |-> 1, SpendHash |-> otherAddress])
                  /\ transactions'[id].transaction.MinerFees =
                       transactions[id].transaction.MinerFees
                  /\ OnlyFeesAndOutputsOf(id)
                  /\ UNCHANGED exceptTransactions ]_vars

\* AddOutput has just added an output to a session that has a fee, while
\* another session holds a reserved output.
C14_Witness ==
  /\ call = "AddOutput" /\ err = ErrNil
  /\ spentOutputs # {}
  /\ \E id, other \in DOMAIN transactions :
       /\ id # other
       /\ transactions[id].transaction.Outputs =
            << [Value |-> 1, SpendHash |-> otherAddress] >>
       /\ transactions[id].transaction.MinerFees = << 1 >>
       /\ transactions[other].transaction.Inputs # << >>

\* C15: Update undoes the rewound blocks from the last to the first, so
\* for blocks B1, B2 where B2 consumes an owned output that B1 created,
\* Update(rewound = [], applied = [B1, B2]) followed by
\* Update(rewound = [B1, B2], applied = []) leaves ownedOutputs and the
\* balance as they were before B1. prev holds the first call and the ledger
\* before it; the step is the second call.
C15_RewindInReverseOrder ==
  [][ ( /\ prev.rewound = << >>
        /\ Len(prev.applied) = 2
        /\ \E o \in OwnedCreated(prev.applied[1]) :
             o.id \in Consumed(prev.applied[2])
        /\ prev'.rewound = prev.applied
        /\ prev'.applied = << >>
        /\ Update(prev.applied, << >>) )
      => ( /\ ownedOutputs' = prev.ownedOutputs
           /\ balance' = prev.balance ) ]_vars

\* C16: whatever RegisterTransaction, FundTransaction, Reset and Update
\* calls were made, one after the other, no output id is an input of the
\* transactions of two sessions, nor twice an input of one.
C16_OutputHeldOnce ==
  \A s1, s2 \in DOMAIN transactions :
    \A i \in DOMAIN transactions[s1].transaction.Inputs,
       j \in DOMAIN transactions[s2].transaction.Inputs :
      (s1 # s2 \/ i # j)
      => transactions[s1].transaction.Inputs[i].OutputID
           # transactions[s2].transaction.Inputs[j].OutputID

\* C17: Reset takes identifiers out of spentOutputs and leaves the balance
\* and the owned outputs as they were, in every wallet state.
C17_ReleaseKeepsLedger ==
  [][ Reset => /\ balance' = balance
               /\ ownedOutputs' = ownedOutputs
               /\ outputs' = outputs ]_vars

\* C18: a successful FundTransaction that selected k outputs adds k entries
\* to the session's record of its inputs, pairwise distinct, the i-th being
\* the position in the transaction of the i-th input appended (counted
\* from 0 or from 1).
C18_InputsRecorded ==
  [][ \A id \in DOMAIN transactions, amount \in 1..MaxAmount,
         order \in IterationOrders :
        (FundTransaction(id, amount, order) /\ err' = ErrNil)
        => LET k == Len(Appended(id))
               before == Len(transactions[id].transaction.Inputs)
               old == transactions[id].inputs
               new == transactions'[id].inputs
           IN /\ Len(new) = Len(old) + k
              /\ SubSeq(new, 1, Len(old)) = old
              /\ \A i, j \in (Len(old) + 1)..Len(new) :
                   i # j => new[i] # new[j]
              /\ \E origin \in {0, 1} :
                   \A i \in 1..k :
                     new[Len(old) + i] = before + (i - 1) + origin ]_vars

\* C19: the refund output that FundTransaction appends pays an address
\* issued by that call: one that was not in spendableAddresses before the
\* call and is in it after, that is not the address of a selected input,
\* and that no earlier refund was paid to.
C19_RefundToFreshAddress ==
  [][ \A id \in DOMAIN transactions, amount \in 1..MaxAmount,
         order \in IterationOrders :
        ( /\ FundTransaction(id, amount, order)
          /\ err' = ErrNil
          /\ Len(transactions'[id].transaction.Outputs)
               = Len(transactions[id].transaction.Outputs) + 1 )
        => LET outs == transactions'[id].transaction.Outputs
               dest == outs[Len(outs)].SpendHash
           IN /\ dest \notin spendableAddresses
              /\ dest \in spendableAddresses'
              /\ \A k \in DOMAIN Appended(id) :
                   Appended(id)[k].SpendConditions # dest
              /\ \A s \in DOMAIN transactions :
                   \A k \in DOMAIN transactions[s].transaction.Outputs :
                     transactions[s].transaction.Outputs[k].SpendHash # dest ]_vars

\* C20: Update, whatever blocks it rewinds and applies, leaves spentOutputs
\* and every session's transaction as they were, also when a block it
\* applies consumes a spent output or a block it rewinds removes one.
C20_UpdateKeepsReservations ==
  [][ call' = "Update" =>
      \A args \in UpdateArgs :
        Update(args[1], args[2])
        => /\ spentOutputs' = spentOutputs
           /\ transactions' = transactions ]_vars

\* Update has just taken from the wallet an output that is still spent and
\* still an input of a session's transaction.
C20_Witness ==
  /\ call = "Update" /\ err = ErrNil
  /\ \E id \in spentOutputs \ ownedOutputs :
       \E s \in DOMAIN transactions :
         id \in InputIds(transactions[s].transaction.Inputs)

====
